---- MODULE Spec2Model ----
(***************************************************************************)
(* Model of bevy_interactive_benchmark: src/src/main.rs (startup: box     *)
(* count parsing and scene setup) and src/src/orbit_controls.rs (the      *)
(* orbit camera and its three per-frame systems).                          *)
(*                                                                         *)
(* Number representation (f32 in the source, integers here):               *)
(*  - angles (x, y, the polar bounds) and lengths along the pan axes are   *)
(*    fixed point with step 0.01: 3.13 is 313, 0.01 is 1;                  *)
(*  - pointer deltas are whole pixels and delta_seconds is counted in      *)
(*    hundredths of a second, so delta * sensitivity * dt is in steps of   *)
(*    0.01 with the sensitivities 1.0 written 1;                           *)
(*  - zoom magnitudes are in tenths: a Line event of y is 10*y, a Pixel    *)
(*    event of y is y, the keyboard step 0.2 is 2;                         *)
(*  - distances (distance, the zoom bounds, zoom_sensitivity) are kept as  *)
(*    a sign and a logarithm: the positive value v is [neg |-> FALSE,      *)
(*    lg |-> 1000 * log_1.25(v)], so 0.8 is -1000, 8.0 is 9319, 12.5 is    *)
(*    11319 and 120.0 is 21455; multiplying adds lg, powf scales it and    *)
(*    the order of values is the order of lg.  A negative value -v is      *)
(*    [neg |-> TRUE, lg |-> 1000 * log_1.25(v)].                           *)
(* Arithmetic is exact on these grids: rounding, infinities and NaN of     *)
(* f32 are outside the model.                                              *)
(***************************************************************************)
EXTENDS Integers, Sequences, FiniteSets, TLC

VARIABLES pc, args, options, boxes, entities, sys, frame, last, hist

vars == <<pc, args, options, boxes, entities, sys, frame, last, hist>>

(***************************************************************************)
(* Bounds of the exploration.                                              *)
(***************************************************************************)
MaxFrames == 2
StepDelta == 100
BigDelta == 1000
DtTick == 1
ZoomInLines == 3
ZoomOutLines == 11

(***************************************************************************)
(* Option<T>: None is the empty sequence, Some(v) the one-element one.     *)
(***************************************************************************)
None == <<>>

Some(v) == <<v>>

(***************************************************************************)
(* Distances: sign and logarithm.                                          *)
(***************************************************************************)
Pos(lg) == [neg |-> FALSE, lg |-> lg]

Neg(lg) == [neg |-> TRUE, lg |-> lg]

GeZero(a) == ~a.neg

FLe(a, b) ==
    IF a.neg /\ ~b.neg THEN TRUE
    ELSE IF ~a.neg /\ b.neg THEN FALSE
    ELSE IF a.neg THEN a.lg >= b.lg
    ELSE a.lg <= b.lg

FMax(a, b) == IF FLe(a, b) THEN b ELSE a

FMin(a, b) == IF FLe(a, b) THEN a ELSE b

\* a * b for b > 0
FMul(a, b) == [neg |-> a.neg, lg |-> a.lg + b.lg]

\* base.powf(zoom) for base > 0 and zoom in tenths
Powf(base, zoom) == Pos((base.lg * zoom) \div 10)

(***************************************************************************)
(* orbit_controls.rs: constants and the Clamp trait.                       *)
(***************************************************************************)
LINE_TO_PIXEL_RATIO == 1

LINE_RATIO == 10

KEY_ZOOM_STEP == 2

MIN_POLAR_ANGLE == 1

MAX_POLAR_ANGLE == 313

ROTATE_SENSITIVITY == 1

PAN_SENSITIVITY == 1

LG_ZOOM_SENSITIVITY == -1000

LG_MIN_ZOOM_DISTANCE == 9319

LG_MAX_ZOOM_DISTANCE == 21455

LG_DEFAULT_DISTANCE == 7213

LG_INIT_DISTANCE == 11319

LG_ONE == 0

IMax(a, b) == IF a >= b THEN a ELSE b

IMin(a, b) == IF a <= b THEN a ELSE b

\* impl Clamp for f32, on angles
ClampAngle(self, lower, upper) ==
    LET below == IF lower = None THEN self ELSE IMax(self, lower[1])
    IN  IF upper = None THEN below ELSE IMin(below, upper[1])

\* impl Clamp for f32, on distances
ClampDistance(self, lower, upper) ==
    LET below == IF lower = None THEN self ELSE FMax(self, lower[1])
    IN  IF upper = None THEN below ELSE FMin(below, upper[1])

(***************************************************************************)
(* Vectors.                                                                *)
(***************************************************************************)
Vec3(x, y, z) == <<x, y, z>>

VAdd(a, b) == <<a[1] + b[1], a[2] + b[2], a[3] + b[3]>>

VSub(a, b) == <<a[1] - b[1], a[2] - b[2], a[3] - b[3]>>

Vec3Zero == <<0, 0, 0>>

Vec2(x, y) == [x |-> x, y |-> y]

Vec2Zero == Vec2(0, 0)

(***************************************************************************)
(* A translation is the point  base + len * dir,  dir a unit vector kept   *)
(* symbolically: the z axis, the direction                                 *)
(* Quat(unit_y, yaw) * Quat(-unit_x, pitch) * (0, 1, 0), or the            *)
(* normalisation of an offset plus a scaled direction.                     *)
(***************************************************************************)
UnitZ == [kind |-> "unit_z", yaw |-> 0, pitch |-> 0, off |-> Vec3Zero, len |-> Pos(LG_ONE)]

RotDir(yaw, pitch) ==
    [kind |-> "rot", yaw |-> yaw, pitch |-> pitch, off |-> Vec3Zero, len |-> Pos(LG_ONE)]

\* (off + len * dir).normalize()
Normalize(off, dir, len) ==
    IF off = Vec3Zero /\ ~len.neg THEN dir
    ELSE [kind |-> <<"normalized", dir.kind>>, yaw |-> dir.yaw, pitch |-> dir.pitch,
          off |-> off, len |-> len]

Translation(base, dir, len) == [base |-> base, dir |-> dir, len |-> len]

(***************************************************************************)
(* OrbitCamera.                                                            *)
(***************************************************************************)
OrbitCamera_default ==
    [x |-> 0, y |-> 0, distance |-> Pos(LG_DEFAULT_DISTANCE), center |-> Vec3Zero,
     rotate_sensitivity |-> ROTATE_SENSITIVITY,
     zoom_sensitivity |-> Pos(LG_ZOOM_SENSITIVITY),
     pan_sensitivity |-> PAN_SENSITIVITY,
     max_zoom_distance |-> Neg(LG_ONE),
     min_zoom_distance |-> Neg(LG_ONE),
     max_polar_angle |-> MAX_POLAR_ANGLE,
     min_polar_angle |-> MIN_POLAR_ANGLE]

OrbitCamera_new(x, y, dist, center) ==
    [x |-> x, y |-> y, distance |-> dist, center |-> center,
     rotate_sensitivity |-> ROTATE_SENSITIVITY,
     zoom_sensitivity |-> Pos(LG_ZOOM_SENSITIVITY),
     pan_sensitivity |-> PAN_SENSITIVITY,
     max_zoom_distance |-> Pos(LG_MAX_ZOOM_DISTANCE),
     min_zoom_distance |-> Pos(LG_MIN_ZOOM_DISTANCE),
     max_polar_angle |-> MAX_POLAR_ANGLE,
     min_polar_angle |-> MIN_POLAR_ANGLE]

Entity(camera, translation) == [camera |-> camera, translation |-> translation]

(***************************************************************************)
(* main.rs: startup options.  A command-line argument is a sequence of     *)
(* one-character strings.                                                  *)
(***************************************************************************)
I32_MAX == 2147483647

I32_MIN == -I32_MAX - 1

DEFAULT_BOX_COUNT == 6

DigitChars == {"0", "1", "2", "3", "4", "5", "6", "7", "8", "9"}

DigitValue(c) ==
    CASE c = "0" -> 0 [] c = "1" -> 1 [] c = "2" -> 2 [] c = "3" -> 3 [] c = "4" -> 4
      [] c = "5" -> 5 [] c = "6" -> 6 [] c = "7" -> 7 [] c = "8" -> 8 [] c = "9" -> 9

\* i32 division: truncates toward zero
TruncDiv(a, b) == IF a % b = 0 \/ a >= 0 THEN a \div b ELSE (a \div b) + 1

RECURSIVE ParseDigits(_, _, _)
\* the digit loop of i32::from_str: checked_mul, then checked_add or checked_sub
ParseDigits(acc, s, sign) ==
    IF s = <<>> THEN Some(acc)
    ELSE IF Head(s) \notin DigitChars THEN None
    ELSE LET d == DigitValue(Head(s))
         IN  IF acc > I32_MAX \div 10 \/ acc < TruncDiv(I32_MIN, 10) THEN None
             ELSE IF sign > 0 /\ acc * 10 > I32_MAX - d THEN None
             ELSE IF sign < 0 /\ acc * 10 < I32_MIN + d THEN None
             ELSE ParseDigits(acc * 10 + sign * d, Tail(s), sign)

\* str::parse::<i32>: Some(n) for Ok(n), None for Err
ParseI32(s) ==
    IF s = <<>> THEN None
    ELSE IF Head(s) \in {"+", "-"}
         THEN IF Len(s) = 1 THEN None
              ELSE ParseDigits(0, Tail(s), IF Head(s) = "-" THEN -1 ELSE 1)
         ELSE ParseDigits(0, s, 1)

StartupOptions(box_count) == [box_count |-> box_count]

\* parse_command_line_options with unwrap_or(6) in place of expect
parse_command_line_options_UnwrapOr(argv) ==
    IF Len(argv) > 1
    THEN LET parsed == ParseI32(argv[2])
         IN  IF parsed = None
             THEN [panic |-> FALSE, options |-> StartupOptions(DEFAULT_BOX_COUNT)]
             ELSE [panic |-> FALSE, options |-> StartupOptions(parsed[1])]
    ELSE [panic |-> FALSE, options |-> StartupOptions(DEFAULT_BOX_COUNT)]

\* the result is [panic |-> TRUE] when expect() panics
parse_command_line_options(argv) ==
    IF Len(argv) > 1
    THEN LET parsed == ParseI32(argv[2])
         IN  IF parsed = None
             THEN [panic |-> TRUE, options |-> StartupOptions(DEFAULT_BOX_COUNT)]
             ELSE [panic |-> FALSE, options |-> StartupOptions(parsed[1])]
    ELSE [panic |-> FALSE, options |-> StartupOptions(DEFAULT_BOX_COUNT)]

\* the half-open range lo..hi as the sequence of its values
Range(lo, hi) == [i \in 1..IMax(hi - lo, 0) |-> lo + i - 1]

\* the translations of the boxes init spawns, in spawn order
BoxPositions(amount) ==
    LET r == Range(-TruncDiv(amount, 2), TruncDiv(amount, 2))
        n == Len(r)
    IN  [i \in 1..(n * n * n) |->
            Vec3(r[((i - 1) \div (n * n)) + 1],
                 r[(((i - 1) \div n) % n) + 1],
                 r[((i - 1) % n) + 1])]

\* the orbit camera entity init spawns
InitCamera ==
    Entity(OrbitCamera_new(0, 0, Pos(LG_INIT_DISTANCE), Vec3Zero),
           Translation(Vec3Zero, UnitZ, Pos(LG_INIT_DISTANCE)))

(***************************************************************************)
(* orbit_controls.rs: the three systems, as functions of the entities the  *)
(* query matches and of the resources they read.                           *)
(***************************************************************************)
RECURSIVE SumMotion(_, _)
SumMotion(delta, events) ==
    IF events = <<>> THEN delta
    ELSE SumMotion(Vec2(delta.x + Head(events).x, delta.y + Head(events).y), Tail(events))

camera_translation(delta, camera, dt) ==
    Vec3(delta.x * camera.pan_sensitivity * dt, delta.y * camera.pan_sensitivity * dt, 0)

\* Drag with the center left where it was
Drag_TranslationOnly(e, t) ==
    Entity(e.camera, [e.translation EXCEPT !.base = VAdd(@, t)])

\* transform.translation += t; camera.center += t
Drag(e, t) ==
    Entity([e.camera EXCEPT !.center = VAdd(@, t)],
           [e.translation EXCEPT !.base = VAdd(@, t)])

\* Rotate without the clamp of y
Rotate_NoClamp(e, delta, dt) ==
    LET x1 == e.camera.x - delta.x * e.camera.rotate_sensitivity * dt
        y1 == e.camera.y - delta.y * e.camera.rotate_sensitivity * dt
        camera == [e.camera EXCEPT !.x = x1, !.y = y1]
    IN  Entity(camera, Translation(camera.center, RotDir(x1, y1), camera.distance))

\* the rotate branch
Rotate(e, delta, dt) ==
    LET x1 == e.camera.x - delta.x * e.camera.rotate_sensitivity * dt
        y1 == e.camera.y - delta.y * e.camera.rotate_sensitivity * dt
        y2 == ClampAngle(y1, Some(e.camera.min_polar_angle), Some(e.camera.max_polar_angle))
        camera == [e.camera EXCEPT !.x = x1, !.y = y2]
    IN  Entity(camera, Translation(camera.center, RotDir(x1, y2), camera.distance))

\* MotionBody with the right-button branch an `if` of its own
MotionBody_NoElse(e, delta, in) ==
    IF in.lshift
    THEN IF in.left THEN Drag(e, camera_translation(delta, e.camera, in.dt)) ELSE e
    ELSE LET r == IF in.left THEN Rotate(e, delta, in.dt) ELSE e
         IN  IF in.right THEN Drag(r, camera_translation(delta, r.camera, in.dt)) ELSE r

\* the body of the query loop of mouse_motion_system
MotionBody(e, delta, in) ==
    IF in.lshift
    THEN IF in.left THEN Drag(e, camera_translation(delta, e.camera, in.dt)) ELSE e
    ELSE IF in.left THEN Rotate(e, delta, in.dt)
         ELSE IF in.right THEN Drag(e, camera_translation(delta, e.camera, in.dt))
              ELSE e

mouse_motion_system(ents, in) ==
    LET delta == SumMotion(Vec2Zero, in.events)
    IN  [i \in DOMAIN ents |-> MotionBody(ents[i], delta, in)]

\* ZoomBody that passes both bounds to clamp whatever their sign
ZoomBody_AlwaysClamp(e, zoom) ==
    LET c == e.camera
        scaled == FMul(c.distance, Powf(c.zoom_sensitivity, zoom))
        distance == ClampDistance(scaled, Some(c.min_zoom_distance), Some(c.max_zoom_distance))
        t == e.translation
        dir == Normalize(VSub(t.base, c.center), t.dir, t.len)
    IN  Entity([c EXCEPT !.distance = distance], Translation(c.center, dir, distance))

\* ZoomBody that leaves the translation where it was
ZoomBody_NoReproject(e, zoom) ==
    LET c == e.camera
        scaled == FMul(c.distance, Powf(c.zoom_sensitivity, zoom))
        distance == ClampDistance(scaled,
                        IF GeZero(c.min_zoom_distance) THEN Some(c.min_zoom_distance) ELSE None,
                        IF GeZero(c.max_zoom_distance) THEN Some(c.max_zoom_distance) ELSE None)
    IN  Entity([c EXCEPT !.distance = distance], e.translation)

\* the body of the query loop of set_zoom_level
ZoomBody(e, zoom) ==
    LET c == e.camera
        scaled == FMul(c.distance, Powf(c.zoom_sensitivity, zoom))
        distance == ClampDistance(scaled,
                        IF GeZero(c.min_zoom_distance) THEN Some(c.min_zoom_distance) ELSE None,
                        IF GeZero(c.max_zoom_distance) THEN Some(c.max_zoom_distance) ELSE None)
        t == e.translation
        dir == Normalize(VSub(t.base, c.center), t.dir, t.len)
    IN  Entity([c EXCEPT !.distance = distance], Translation(c.center, dir, distance))

set_zoom_level(zoom, ents) == [i \in DOMAIN ents |-> ZoomBody(ents[i], zoom)]

WheelFactor(unit) == IF unit = "Line" THEN LINE_RATIO ELSE LINE_TO_PIXEL_RATIO

RECURSIVE SumWheel(_, _)
SumWheel(total, events) ==
    IF events = <<>> THEN total
    ELSE SumWheel(total + Head(events).y * WheelFactor(Head(events).unit), Tail(events))

mouse_zoom_system(ents, in) == set_zoom_level(SumWheel(0, in.events), ents)

\* keyboard_controls_system with `if` in place of `else if`
keyboard_controls_system_TwoIfs(ents, in) ==
    LET afterUp == IF in.up THEN set_zoom_level(0 + KEY_ZOOM_STEP, ents) ELSE ents
    IN  IF in.down THEN set_zoom_level(0 - KEY_ZOOM_STEP, afterUp) ELSE afterUp

keyboard_controls_system(ents, in) ==
    IF in.up THEN set_zoom_level(0 + KEY_ZOOM_STEP, ents)
    ELSE IF in.down THEN set_zoom_level(0 - KEY_ZOOM_STEP, ents)
         ELSE ents

\* impl Plugin: the systems in the order build() adds them
Schedule == <<"mouse_motion_system", "mouse_zoom_system", "keyboard_controls_system">>

(***************************************************************************)
(* Inputs.                                                                 *)
(***************************************************************************)
ProgramName == <<"d", "e", "m", "o">>

ArgStrings ==
    { <<"0">>, <<"1">>, <<"2">>, <<"3">>, <<"4">>, <<"5">>, <<"+", "4">>, <<"-", "3">>,
      <<"0", "0", "2">>, <<>>, <<"-">>, <<"a", "b", "c">>, <<"2", ".", "5">>, <<"3", " ">>,
      <<"2", "1", "4", "7", "4", "8", "3", "6", "4", "8">> }

Argv ==
    {<<ProgramName>>} \cup {<<ProgramName, a>> : a \in ArgStrings}
        \cup {<<ProgramName, a, b>> : a \in ArgStrings, b \in {<<"7">>, <<"x">>}}

MotionEventLists ==
    { <<>>,
      <<Vec2(StepDelta, -StepDelta)>>,
      <<Vec2(BigDelta, -BigDelta)>>,
      <<Vec2(-BigDelta, BigDelta)>>,
      <<Vec2(StepDelta, -StepDelta), Vec2(-StepDelta, StepDelta)>> }

Times == {0, DtTick}

MotionInputs ==
    [events : MotionEventLists, dt : Times, left : BOOLEAN, right : BOOLEAN, lshift : BOOLEAN]

Wheel(unit, y) == [unit |-> unit, y |-> y]

WheelEventLists ==
    { <<>>,
      <<Wheel("Line", ZoomInLines)>>,
      <<Wheel("Line", -ZoomOutLines)>>,
      <<Wheel("Line", 1), Wheel("Pixel", -10)>> }

WheelInputs == [events : WheelEventLists]

KeyInputs == [up : BOOLEAN, down : BOOLEAN]

(***************************************************************************)
(* The state machine.                                                      *)
(***************************************************************************)
NoStep == [system |-> "none", input |-> [events |-> <<>>], before |-> <<>>]

NoFrame == [start |-> <<>>, motion |-> None, wheel |-> None, keys |-> None]

Init ==
    /\ pc = "main"
    /\ args = <<ProgramName>>
    /\ options = None
    /\ boxes = <<>>
    /\ entities = <<>>
    /\ sys = 1
    /\ frame = 0
    /\ last = NoStep
    /\ hist = NoFrame

InitArgv ==
    /\ pc = "main"
    /\ args \in Argv
    /\ options = None
    /\ boxes = <<>>
    /\ entities = <<>>
    /\ sys = 1
    /\ frame = 0
    /\ last = NoStep
    /\ hist = NoFrame

\* main: parse the options, then build the app (or panic)
main ==
    /\ pc = "main"
    /\ LET r == parse_command_line_options(args)
       IN  IF r.panic
           THEN pc' = "exit" /\ options' = options
           ELSE pc' = "startup" /\ options' = Some(r.options)
    /\ UNCHANGED <<args, boxes, entities, sys, frame, last, hist>>

\* the startup system
init ==
    /\ pc = "startup"
    /\ pc' = "update"
    /\ entities' = <<InitCamera>>
    /\ boxes' = BoxPositions(options[1].box_count)
    /\ UNCHANGED <<args, options, sys, frame, last, hist>>

\* the system the schedule runs next; sys = Len(Schedule) + 1 when all have run
Turn(name) ==
    pc = "update" /\ frame < MaxFrames /\ sys <= Len(Schedule) /\ Schedule[sys] = name

\* the step record of a system run with the resources `in`
StepOf(name, in) == [system |-> name, input |-> in, before |-> entities]

\* the record of the running frame, begun by the first system of the frame
Frame == IF sys = 1 THEN [NoFrame EXCEPT !.start = entities] ELSE hist

RunMouseMotionSystem ==
    /\ Turn("mouse_motion_system")
    /\ \E in \in MotionInputs :
          /\ entities' = mouse_motion_system(entities, in)
          /\ last' = StepOf("mouse_motion_system", in)
          /\ hist' = [Frame EXCEPT !.motion = Some(SumMotion(Vec2Zero, in.events) = Vec2Zero)]
    /\ sys' = sys + 1
    /\ UNCHANGED <<pc, args, options, boxes, frame>>

RunMouseZoomSystem ==
    /\ Turn("mouse_zoom_system")
    /\ \E in \in WheelInputs :
          /\ entities' = mouse_zoom_system(entities, in)
          /\ last' = StepOf("mouse_zoom_system", in)
          /\ hist' = [Frame EXCEPT !.wheel = Some(in.events)]
    /\ sys' = sys + 1
    /\ UNCHANGED <<pc, args, options, boxes, frame>>

RunKeyboardControlsSystem ==
    /\ Turn("keyboard_controls_system")
    /\ \E in \in KeyInputs :
          /\ entities' = keyboard_controls_system(entities, in)
          /\ last' = StepOf("keyboard_controls_system", in)
          /\ hist' = [Frame EXCEPT !.keys = Some(in)]
    /\ sys' = sys + 1
    /\ UNCHANGED <<pc, args, options, boxes, frame>>

\* the app runner: the update stage is over, the next frame begins with the
\* events of this one dropped
NextFrame ==
    /\ pc = "update"
    /\ sys = Len(Schedule) + 1
    /\ sys' = 1
    /\ frame' = frame + 1
    /\ last' = NoStep
    /\ hist' = NoFrame
    /\ UNCHANGED <<pc, args, options, boxes, entities>>

NextUpdate ==
    RunMouseMotionSystem \/ RunMouseZoomSystem \/ RunKeyboardControlsSystem \/ NextFrame

NextStartup == main \/ init

Next ==
    \/ main
    \/ init
    \/ RunMouseMotionSystem
    \/ RunMouseZoomSystem
    \/ RunKeyboardControlsSystem
    \/ NextFrame

Spec == Init /\ [][Next]_vars

(***************************************************************************)
(* The plugin on its own: the update stage over a camera entity built by   *)
(* OrbitCamera::new or Default, with each zoom bound either set or         *)
(* negative (the fields are pub).                                          *)
(***************************************************************************)
PluginCameras ==
    { OrbitCamera_new(0, 0, Pos(LG_INIT_DISTANCE), Vec3Zero),
      [OrbitCamera_new(0, 0, Pos(LG_INIT_DISTANCE), Vec3Zero)
          EXCEPT !.min_zoom_distance = Neg(LG_ONE)],
      OrbitCamera_default,
      [OrbitCamera_default EXCEPT !.min_zoom_distance = Pos(LG_MIN_ZOOM_DISTANCE)] }

InitPlugin ==
    /\ pc = "update"
    /\ args = <<ProgramName>>
    /\ options = Some(StartupOptions(0))
    /\ boxes = <<>>
    /\ \E c \in PluginCameras :
          entities = <<Entity(c, Translation(c.center, UnitZ, c.distance))>>
    /\ sys = 1
    /\ frame = 0
    /\ last = NoStep
    /\ hist = NoFrame

SpecPlugin == InitPlugin /\ [][NextUpdate]_vars

SpecStartup == InitArgv /\ [][NextStartup]_vars

(***************************************************************************)
(* Vocabulary of the properties.                                           *)
(***************************************************************************)
\* the last step was mouse_motion_system in rotate mode
RotateStep ==
    /\ last.system = "mouse_motion_system"
    /\ last.input.left
    /\ ~last.input.lshift

\* the last step was mouse_motion_system in pan mode
PanStep ==
    /\ last.system = "mouse_motion_system"
    /\ \/ last.input.lshift /\ last.input.left
       \/ ~last.input.lshift /\ ~last.input.left /\ last.input.right

\* the last step called set_zoom_level
ZoomStep ==
    \/ last.system = "mouse_zoom_system"
    \/ last.system = "keyboard_controls_system" /\ (last.input.up \/ last.input.down)

\* the zoom magnitude the last step passed to set_zoom_level
LastZoom ==
    IF last.system = "mouse_zoom_system" THEN SumWheel(0, last.input.events)
    ELSE IF last.input.up THEN KEY_ZOOM_STEP ELSE -KEY_ZOOM_STEP

\* the accumulated pointer delta of the last mouse_motion_system step
LastDelta == SumMotion(Vec2Zero, last.input.events)

\* all three systems of a frame have just run
FrameEnd == pc = "update" /\ sys = Len(Schedule) + 1

\* a frame can start in this state
FrameStart == pc = "update" /\ sys = 1 /\ frame < MaxFrames

PolarAngleInBounds(c) == c.min_polar_angle <= c.y /\ c.y <= c.max_polar_angle

\* old * zoom_sensitivity^zoom, before any clamp
Scaled(c, zoom) == FMul(c.distance, Powf(c.zoom_sensitivity, zoom))

\* old * zoom_sensitivity^zoom clamped once against the non-negative bounds of c
ZoomedOnce(c, d, zoom) ==
    LET raw == FMul(d, Powf(c.zoom_sensitivity, zoom))
        low == IF GeZero(c.min_zoom_distance) THEN FMax(raw, c.min_zoom_distance) ELSE raw
    IN  IF GeZero(c.max_zoom_distance) THEN FMin(low, c.max_zoom_distance) ELSE low

(***************************************************************************)
(* C1: after any rotate update (mouse_motion_system with the left button   *)
(* held and LShift not held) the vertical angle y of every orbit camera    *)
(* lies within [min_polar_angle, max_polar_angle], whatever the pointer    *)
(* delta, dt and the prior y.                                              *)
(***************************************************************************)
C1_RotateClampsPolarAngle ==
    RotateStep => \A i \in DOMAIN entities : PolarAngleInBounds(entities[i].camera)

\* a rotate whose unclamped angle overshoots max_polar_angle, from a y the
\* program had reached by an earlier rotate
C1_Witness ==
    /\ RotateStep
    /\ last.before[1].camera.y > 0
    /\ last.before[1].camera.y - LastDelta.y * last.input.dt > MAX_POLAR_ANGLE
    /\ entities[1].camera.y = MAX_POLAR_ANGLE

(***************************************************************************)
(* C2: after any call of set_zoom_level the distance is >= the minimum     *)
(* when min_zoom_distance >= 0 and <= the maximum when max_zoom_distance   *)
(* >= 0; on a side whose bound is negative no limit applies, so the        *)
(* distance is old_distance * zoom_sensitivity^zoom unless the other,      *)
(* non-negative bound clamps it.                                           *)
(***************************************************************************)
C2_ZoomWithinBounds ==
    ZoomStep =>
        \A i \in DOMAIN entities :
            LET c == entities[i].camera
                raw == Scaled(last.before[i].camera, LastZoom)
            IN  /\ GeZero(c.min_zoom_distance) => FLe(c.min_zoom_distance, c.distance)
                /\ GeZero(c.max_zoom_distance) => FLe(c.distance, c.max_zoom_distance)
                /\ ~GeZero(c.min_zoom_distance)
                      /\ (GeZero(c.max_zoom_distance) => FLe(raw, c.max_zoom_distance))
                      => c.distance = raw
                /\ ~GeZero(c.max_zoom_distance)
                      /\ (GeZero(c.min_zoom_distance) => FLe(c.min_zoom_distance, raw))
                      => c.distance = raw

\* a zoom out past 120.0 on a camera whose maximum is negative and whose
\* minimum is set: the distance is the unclamped product
C2_Witness ==
    /\ ZoomStep
    /\ ~GeZero(entities[1].camera.max_zoom_distance)
    /\ GeZero(entities[1].camera.min_zoom_distance)
    /\ FLe(Pos(LG_MAX_ZOOM_DISTANCE + 1), entities[1].camera.distance)
    /\ entities[1].camera.distance = Scaled(last.before[1].camera, LastZoom)

(***************************************************************************)
(* C3: in every state from scene setup on, the polar angle y of the orbit  *)
(* camera lies within [min_polar_angle, max_polar_angle].                  *)
(***************************************************************************)
C3_PolarAngleAlwaysInBounds ==
    \A i \in DOMAIN entities : PolarAngleInBounds(entities[i].camera)

IdleFrame ==
    /\ hist.motion = Some(TRUE)
    /\ SumWheel(0, hist.wheel[1]) = 0
    /\ ~hist.keys[1].up /\ ~hist.keys[1].down

(***************************************************************************)
(* C4: a frame whose accumulated pointer delta is (0,0), whose wheel total *)
(* is 0 and in which neither Up nor Down is held leaves x, y, center and   *)
(* distance as they were at the start of the frame, whatever buttons and   *)
(* LShift are held.                                                        *)
(***************************************************************************)
C4_IdleFrameChangesNothing ==
    FrameEnd /\ IdleFrame =>
        \A i \in DOMAIN entities :
            /\ entities[i].camera.x = hist.start[i].camera.x
            /\ entities[i].camera.y = hist.start[i].camera.y
            /\ entities[i].camera.center = hist.start[i].camera.center
            /\ entities[i].camera.distance = hist.start[i].camera.distance

FrameWheel == SumWheel(0, hist.wheel[1])

(***************************************************************************)
(* C5 as stated: the distance after a frame is old * zoom_sensitivity^m    *)
(* clamped once, m being the wheel total plus 0.2 if Up is held minus 0.2  *)
(* if Down is held.                                                        *)
(***************************************************************************)
C5_SingleAccumulatedZoom ==
    FrameEnd =>
        \A i \in DOMAIN entities :
            LET c == hist.start[i].camera
                m == FrameWheel + (IF hist.keys[1].up THEN KEY_ZOOM_STEP ELSE 0)
                                - (IF hist.keys[1].down THEN KEY_ZOOM_STEP ELSE 0)
            IN  entities[i].camera.distance = ZoomedOnce(c, c.distance, m)

(***************************************************************************)
(* C5 as amended: the wheel total and the keyboard step go through two     *)
(* calls of set_zoom_level, each clamped: the distance after a frame is    *)
(* clamp(clamp(old * zs^w) * zs^k), with w the wheel total and k = 0.2     *)
(* when Up is held, otherwise -0.2 when Down is held; with neither held    *)
(* there is no second call.                                                *)
(***************************************************************************)
C5_TwoClampedZooms ==
    FrameEnd =>
        \A i \in DOMAIN entities :
            LET c == hist.start[i].camera
                afterWheel == ZoomedOnce(c, c.distance, FrameWheel)
            IN  entities[i].camera.distance =
                    IF hist.keys[1].up THEN ZoomedOnce(c, afterWheel, KEY_ZOOM_STEP)
                    ELSE IF hist.keys[1].down THEN ZoomedOnce(c, afterWheel, -KEY_ZOOM_STEP)
                    ELSE afterWheel

\* a frame with a wheel zoom in that the minimum clamps, followed by the
\* Down step: the distance ends above the minimum
C5_Witness ==
    /\ FrameEnd
    /\ FrameWheel > 0
    /\ hist.keys[1].down
    /\ ZoomedOnce(hist.start[1].camera, hist.start[1].camera.distance, FrameWheel)
          = hist.start[1].camera.min_zoom_distance
    /\ entities[1].camera.distance # hist.start[1].camera.min_zoom_distance

(***************************************************************************)
(* C6: in rotate mode mouse_motion_system only rotates: x becomes exactly  *)
(* x - delta.x * rotate_sensitivity * dt (no clamp, no wrap), center and   *)
(* distance stay, and the translation is the orbit position around the     *)
(* unmoved center, not a pan-shifted one, also with the right button held. *)
(***************************************************************************)
C6_RotateOnly ==
    RotateStep =>
        \A i \in DOMAIN entities :
            LET c == entities[i].camera
                b == last.before[i].camera
            IN  /\ c.x = b.x - LastDelta.x * b.rotate_sensitivity * last.input.dt
                /\ c.center = b.center
                /\ c.distance = b.distance
                /\ entities[i].translation =
                       Translation(b.center, RotDir(c.x, c.y), b.distance)

\* both buttons held, a delta that takes x past a full turn (2 pi is 628)
C6_Witness ==
    /\ RotateStep
    /\ last.input.right
    /\ last.input.dt > 0
    /\ LastDelta.x # 0
    /\ entities[1].camera.x > 628

(***************************************************************************)
(* C7: in a pan frame (LShift and left held, or right held with neither    *)
(* LShift nor left) the translation and the center both move by            *)
(* (delta.x * pan_sensitivity * dt, delta.y * pan_sensitivity * dt, 0), so *)
(* translation - center is unchanged, and x, y and distance are unchanged. *)
(***************************************************************************)
C7_PanShiftsBoth ==
    PanStep =>
        \A i \in DOMAIN entities :
            LET c == entities[i].camera
                b == last.before[i].camera
                t == entities[i].translation
                u == last.before[i].translation
                shift == Vec3(LastDelta.x * b.pan_sensitivity * last.input.dt,
                              LastDelta.y * b.pan_sensitivity * last.input.dt, 0)
            IN  /\ t.base = VAdd(u.base, shift) /\ t.dir = u.dir /\ t.len = u.len
                /\ c.center = VAdd(b.center, shift)
                /\ VSub(t.base, c.center) = VSub(u.base, b.center)
                /\ c.x = b.x /\ c.y = b.y /\ c.distance = b.distance

\* a pan by a non-zero vector with the right button alone, of a camera that
\* was rotated before
C7_Witness ==
    /\ PanStep
    /\ ~last.input.lshift
    /\ last.input.dt > 0
    /\ LastDelta # Vec2Zero
    /\ last.before[1].camera.x # 0
    /\ entities[1].camera.center # last.before[1].camera.center

Started == pc \in {"startup", "update"}

Exited == pc = "exit" /\ options = None /\ boxes = <<>> /\ entities = <<>>

(***************************************************************************)
(* C8: box-count parsing has three outcomes: no argument gives 6; a first  *)
(* argument that parses as an i32 gives that integer; any other first      *)
(* argument ends the process before the app is built or anything is        *)
(* spawned, never continuing with 6.                                       *)
(***************************************************************************)
C8_ParseOutcomes ==
    pc # "main" =>
        /\ IF Len(args) = 1 THEN Started /\ options = Some(StartupOptions(6))
           ELSE IF ParseI32(args[2]) # None
                THEN Started /\ options = Some(StartupOptions(ParseI32(args[2])[1]))
                ELSE Exited
        /\ Len(args) > 1 /\ args[2] = <<"-", "3">> => options = Some(StartupOptions(-3))
        /\ Len(args) > 1 /\ args[2] = <<"+", "4">> => options = Some(StartupOptions(4))
        /\ Len(args) > 1 /\ args[2] = <<"0", "0", "2">> => options = Some(StartupOptions(2))
        /\ Len(args) > 1 /\ args[2] = <<"5">> => options = Some(StartupOptions(5))
        /\ Len(args) > 1
              /\ args[2] \in { <<>>, <<"-">>, <<"a", "b", "c">>, <<"2", ".", "5">>, <<"3", " ">>,
                               <<"2", "1", "4", "7", "4", "8", "3", "6", "4", "8">> }
              => Exited

\* a first argument that is a number but no integer: the process has exited
C8_Witness == pc = "exit" /\ args[2] = <<"2", ".", "5">> /\ Len(args) = 3

AxisValues(k) == {boxes[i][k] : i \in DOMAIN boxes}

(***************************************************************************)
(* C9: for every box_count n >= 0, init spawns n boxes along each axis,    *)
(* n*n*n in all, at distinct integer grid positions.                       *)
(***************************************************************************)
C9_BoxGrid ==
    pc = "update" /\ options[1].box_count >= 0 =>
        LET n == options[1].box_count
        IN  /\ Len(boxes) = n * n * n
            /\ \A k \in 1..3 : Cardinality(AxisValues(k)) = n
            /\ \A i, j \in DOMAIN boxes : i # j => boxes[i] # boxes[j]

(***************************************************************************)
(* One frame run with the three systems in a given order.                  *)
(***************************************************************************)
SystemNames == {Schedule[i] : i \in DOMAIN Schedule}

Orders ==
    { o \in [1..3 -> SystemNames] : o[1] # o[2] /\ o[1] # o[3] /\ o[2] # o[3] }

FrameInputs == [motion : MotionInputs, wheel : WheelInputs, keys : KeyInputs]

RunSystem(name, ents, in) ==
    IF name = "mouse_motion_system" THEN mouse_motion_system(ents, in.motion)
    ELSE IF name = "mouse_zoom_system" THEN mouse_zoom_system(ents, in.wheel)
    ELSE keyboard_controls_system(ents, in.keys)

RunFrame(order, ents, in) ==
    RunSystem(order[3], RunSystem(order[2], RunSystem(order[1], ents, in), in), in)

\* the part of the camera that no zoom touches
Orientation(ents) ==
    [i \in DOMAIN ents |-> <<ents[i].camera.x, ents[i].camera.y, ents[i].camera.center>>]

\* the frame zooms by the wheel and by the keyboard
ZoomsTwice(in) == SumWheel(0, in.wheel.events) # 0 /\ (in.keys.up \/ in.keys.down)

(***************************************************************************)
(* C10 as stated: from any reachable camera state and for any inputs of a  *)
(* frame, the state after the frame (x, y, center, distance, translation)  *)
(* is the same for every order of the three systems.                       *)
(***************************************************************************)
C10_OrderIndependent ==
    FrameStart =>
        \A in \in FrameInputs :
            LET b == RunFrame(Schedule, entities, in)
            IN  \A o \in Orders : RunFrame(o, entities, in) = b

(***************************************************************************)
(* C10 as amended: x, y and center after the frame are the same for every  *)
(* order, and so are distance and translation in every frame that does not *)
(* zoom both by a non-zero wheel total and by a held Up or Down key.       *)
(***************************************************************************)
C10_OrderIndependentUnlessTwoZooms ==
    FrameStart =>
        \A in \in FrameInputs :
            LET b == RunFrame(Schedule, entities, in)
            IN  \A o \in Orders \ {Schedule} :
                    LET a == RunFrame(o, entities, in)
                    IN  IF ZoomsTwice(in) THEN Orientation(a) = Orientation(b) ELSE a = b

\* a state reached by a frame that rotated and zoomed, from which a frame
\* that rotates and zooms by the keyboard ends the same in every order
C10_Witness ==
    /\ FrameStart
    /\ frame >= 1
    /\ entities[1].camera.y > 0
    /\ entities[1].camera.distance # Pos(LG_INIT_DISTANCE)
    /\ \E in \in FrameInputs :
          /\ in.motion.left /\ ~in.motion.lshift /\ in.motion.dt > 0
          /\ SumMotion(Vec2Zero, in.motion.events) # Vec2Zero
          /\ in.keys.down /\ ~in.keys.up /\ ~ZoomsTwice(in)
          /\ RunFrame(Schedule, entities, in)[1].camera.distance # entities[1].camera.distance
          /\ RunFrame(Schedule, entities, in)[1].camera.x # entities[1].camera.x
          /\ \A o \in Orders : RunFrame(o, entities, in) = RunFrame(Schedule, entities, in)

====
